---- MODULE Spec2Model ----
(***************************************************************************)
(* Model of the insurance article generator with the novelty guard         *)
(* (daily_insurance_article.js): the text helpers, the recency filter, the *)
(* re-prompt loop and main's read / generate / save cycle over             *)
(* articles.json.                                                          *)
(*                                                                         *)
(* Strings are sequences of one-character strings, so that tokenize,       *)
(* slugify and toLowerCase are computed character by character.            *)
(* Instants are counted in ticks; a day has TicksPerDay ticks.  The        *)
(* process's time zone is taken to have a fixed UTC offset, so             *)
(* Date.setDate(getDate() - n) moves the instant by exactly n days.        *)
(***************************************************************************)
EXTENDS Integers, Sequences, FiniteSets, TLC

\* ------------------------------------------------------------------------
\* Bounds of the model
\* ------------------------------------------------------------------------

\* ticks in a day: the resolution of the clock
TicksPerDay == 2

\* number of runs of the script in one behaviour
MaxRuns == 2

\* ------------------------------------------------------------------------
\* Program constants
\* ------------------------------------------------------------------------

NOVELTY_WINDOW_DAYS == 90

MAX_REPROMPTS == 3

\* 0.4, as the fraction 2/5
TITLE_SIM_THRESHOLD == <<2, 5>>

\* 0.28, as the fraction 7/25
BODY_SIM_THRESHOLD == <<7, 25>>

SHINGLE_N == 5

\* buildDailyPrompt keeps the first 15 entries of each avoid list
PROMPT_AVOID_MAX == 15

\* ANGLE_ARCHETYPES.length
ANGLE_COUNT == 7

\* ------------------------------------------------------------------------
\* Characters and strings
\* ------------------------------------------------------------------------

UpperSeq == <<"A","B","C","D","E","F","G","H","I","J","K","L","M",
              "N","O","P","Q","R","S","T","U","V","W","X","Y","Z">>

LowerSeq == <<"a","b","c","d","e","f","g","h","i","j","k","l","m",
              "n","o","p","q","r","s","t","u","v","w","x","y","z">>

DigitChars == {"0","1","2","3","4","5","6","7","8","9"}

\* \s of a JavaScript regular expression (the members the model uses)
SpaceChars == {" ", "\t", "\n"}

RangeOf(s) == {s[i] : i \in DOMAIN s}

UpperChars == RangeOf(UpperSeq)

LowerChars == RangeOf(LowerSeq)

\* the lower-case letter of each upper-case letter
LowerOf ==
    [c \in UpperChars |-> LowerSeq[CHOOSE i \in DOMAIN UpperSeq : UpperSeq[i] = c]]

\* String.prototype.toLowerCase on one character
LowerChar(c) ==
    IF c \in UpperChars THEN LowerOf[c] ELSE IF c = "É" THEN "é" ELSE c

\* [a-z0-9\s-]
TokenChars == LowerChars \cup DigitChars \cup SpaceChars \cup {"-"}

\* [\w\s-]
SlugChars == LowerChars \cup UpperChars \cup DigitChars \cup {"_", "-"} \cup SpaceChars

toLowerCase(s) == [i \in DOMAIN s |-> LowerChar(s[i])]

\* a slip: no character is replaced, so that punctuation makes tokens
ReplaceDisallowedKeeps(s) == s

\* a slip: .replace(/[^a-z0-9\s-]/g, ""), which deletes the character
ReplaceDisallowedDeletes(s) == SelectSeq(s, LAMBDA c : c \in TokenChars)

\* .replace(/[^a-z0-9\s-]/g, " ")
ReplaceDisallowed(s) ==
    [i \in DOMAIN s |-> IF s[i] \in TokenChars THEN s[i] ELSE " "]

\* .replace(/\s+/g, " ")
RECURSIVE CollapseSpaces(_)
CollapseSpaces(s) ==
    IF s = <<>> THEN <<>>
    ELSE IF Head(s) \in SpaceChars
         THEN IF Len(s) > 1 /\ s[2] \in SpaceChars
              THEN CollapseSpaces(Tail(s))
              ELSE <<" ">> \o CollapseSpaces(Tail(s))
         ELSE <<Head(s)>> \o CollapseSpaces(Tail(s))

\* String.prototype.trim
RECURSIVE TrimLeft(_)
TrimLeft(s) ==
    IF s # <<>> /\ Head(s) \in SpaceChars THEN TrimLeft(Tail(s)) ELSE s

RECURSIVE TrimRight(_)
TrimRight(s) ==
    IF s # <<>> /\ s[Len(s)] \in SpaceChars
    THEN TrimRight(SubSeq(s, 1, Len(s) - 1)) ELSE s

trim(s) == TrimRight(TrimLeft(s))

\* String.prototype.split(sep) for a one-character separator: "" gives [""]
RECURSIVE SplitAcc(_, _, _)
SplitAcc(s, sep, cur) ==
    IF s = <<>> THEN <<cur>>
    ELSE IF Head(s) = sep
         THEN <<cur>> \o SplitAcc(Tail(s), sep, <<>>)
         ELSE SplitAcc(Tail(s), sep, Append(cur, Head(s)))

split(s, sep) == SplitAcc(s, sep, <<>>)

\* .filter(Boolean) on an array of strings: the empty string is falsy
FilterNonEmpty(parts) == SelectSeq(parts, LAMBDA p : p # <<>>)

tokenize(s) ==
    FilterNonEmpty(split(trim(CollapseSpaces(ReplaceDisallowed(toLowerCase(s)))), " "))

\* Array.prototype.join(sep)
RECURSIVE join(_, _)
join(parts, sep) ==
    IF parts = <<>> THEN <<>>
    ELSE IF Len(parts) = 1 THEN parts[1]
         ELSE parts[1] \o sep \o join(Tail(parts), sep)

\* ------------------------------------------------------------------------
\* Similarity: a score is the fraction <<numerator, denominator>>
\* ------------------------------------------------------------------------

\* a slip: the threshold tested with > instead of >=
FracGT(a, b) == a[1] * b[2] > b[1] * a[2]

\* a >= b for fractions with positive denominators.  The code compares the
\* doubles inter / uni and 0.4 (or 0.28): the quotient is correctly rounded,
\* so it equals the literal when the fraction equals 2/5 (or 7/25), and no
\* other fraction of set sizes rounds to it.
FracGE(a, b) == a[1] * b[2] >= b[1] * a[2]

SetSize(S) == Cardinality(S)

\* a slip: the union size without `|| 1`
jaccardNoFloor(aArr, bArr) ==
    LET A == RangeOf(aArr)
        B == RangeOf(bArr)
    IN <<SetSize(A \cap B), SetSize(A \cup B)>>

\* a slip: the intersection over the size of the first set
jaccardOverFirst(aArr, bArr) ==
    LET A == RangeOf(aArr)
        B == RangeOf(bArr)
        size == SetSize(A)
    IN <<SetSize(A \cap B), IF size = 0 THEN 1 ELSE size>>

jaccard(aArr, bArr) ==
    LET A == RangeOf(aArr)
        B == RangeOf(bArr)
        inter == SetSize(A \cap B)
        size == SetSize(A \cup B)
        uni == IF size = 0 THEN 1 ELSE size
    IN <<inter, uni>>

shingles(words, n) ==
    [i \in 1..(IF Len(words) >= n THEN Len(words) - n + 1 ELSE 0) |->
        join(SubSeq(words, i, i + n - 1), <<" ">>)]

\* .replace(/<[^>]+>/g, " "): the first ">" after a "<" closes the tag, and
\* "<>" is no tag
RECURSIVE FirstGt(_, _)
FirstGt(s, i) ==
    IF i > Len(s) THEN 0 ELSE IF s[i] = ">" THEN i ELSE FirstGt(s, i + 1)

RECURSIVE StripTags(_)
StripTags(s) ==
    IF s = <<>> THEN <<>>
    ELSE LET j == FirstGt(s, 2)
         IN IF Head(s) = "<" /\ j > 2
            THEN <<" ">> \o StripTags(SubSeq(s, j + 1, Len(s)))
            ELSE <<Head(s)>> \o StripTags(Tail(s))

\* a slip: the words themselves compared, not their shingles
bodySimilarityOnWords(htmlA, htmlB) ==
    jaccard(tokenize(StripTags(htmlA)), tokenize(StripTags(htmlB)))

bodySimilarity(htmlA, htmlB) ==
    LET wa == tokenize(StripTags(htmlA))
        wb == tokenize(StripTags(htmlB))
        Sa == RangeOf(shingles(wa, SHINGLE_N))
        Sb == RangeOf(shingles(wb, SHINGLE_N))
        size == SetSize(Sa \cup Sb)
    IN IF Len(wa) < SHINGLE_N \/ Len(wb) < SHINGLE_N THEN <<0, 1>>
       ELSE <<SetSize(Sa \cap Sb), IF size = 0 THEN 1 ELSE size>>

NoClash == [clash |-> "none", against |-> <<>>, score |-> <<0, 1>>]

\* a slip: `return null` inside the loop, so that only the first record of
\* the pool is compared
isTooSimilarFirstOnly(draft, recents) ==
    IF recents = <<>> THEN NoClash
    ELSE LET r == Head(recents)
             tSim == jaccard(tokenize(draft.title), tokenize(r.title))
             bSim == bodySimilarity(draft.body_html, r.body)
         IN IF FracGE(tSim, TITLE_SIM_THRESHOLD)
            THEN [clash |-> "title", against |-> r.title, score |-> tSim]
            ELSE IF FracGE(bSim, BODY_SIM_THRESHOLD)
                 THEN [clash |-> "body", against |-> r.title, score |-> bSim]
                 ELSE NoClash

\* a slip: the whole pool is ranked and the highest clash reported
isTooSimilarHighest(draft, recents) ==
    LET clashOf(r) ==
            LET tSim == jaccard(tokenize(draft.title), tokenize(r.title))
                bSim == bodySimilarity(draft.body_html, r.body)
            IN IF FracGE(tSim, TITLE_SIM_THRESHOLD)
               THEN [clash |-> "title", against |-> r.title, score |-> tSim]
               ELSE IF FracGE(bSim, BODY_SIM_THRESHOLD)
                    THEN [clash |-> "body", against |-> r.title, score |-> bSim]
                    ELSE NoClash
        hits == {i \in DOMAIN recents : clashOf(recents[i]).clash # "none"}
        score(i) == clashOf(recents[i]).score
    IN IF hits = {} THEN NoClash
       ELSE clashOf(recents[CHOOSE i \in hits : \A j \in hits :
                        \/ FracGT(score(i), score(j))
                        \/ FracGE(score(i), score(j)) /\ i <= j])

\* draft: [title, body_html]; recents: sequence of [title, body]
RECURSIVE isTooSimilar(_, _)
isTooSimilar(draft, recents) ==
    IF recents = <<>> THEN NoClash
    ELSE LET r == Head(recents)
             tSim == jaccard(tokenize(draft.title), tokenize(r.title))
             bSim == bodySimilarity(draft.body_html, r.body)
         IN IF FracGE(tSim, TITLE_SIM_THRESHOLD)
            THEN [clash |-> "title", against |-> r.title, score |-> tSim]
            ELSE IF FracGE(bSim, BODY_SIM_THRESHOLD)
                 THEN [clash |-> "body", against |-> r.title, score |-> bSim]
                 ELSE isTooSimilar(draft, Tail(recents))

\* Number.prototype.toFixed(2), as hundredths; a tie rounds up, which is what
\* toFixed does for the ties a binary double holds exactly (k/8)
toFixed2(score) == (200 * score[1] + score[2]) \div (2 * score[2])

\* ------------------------------------------------------------------------
\* Dates.  A date field of articles.json is one of
\*   [k |-> "none"]            the key is absent (undefined)
\*   [k |-> "ymd", v |-> d]    "YYYY-MM-DD": parsed as 00:00 UTC of day d
\*   [k |-> "iso", v |-> t]    a full timestamp: the instant t
\*   [k |-> "bad"]             a non-empty string Date cannot parse
\* ------------------------------------------------------------------------

NoDate == [k |-> "none", v |-> 0]

BadDate == [k |-> "bad", v |-> 0]

Ymd(d) == [k |-> "ymd", v |-> d]

Iso(t) == [k |-> "iso", v |-> t]

\* JavaScript truthiness of a date field
Truthy(x) == x.k # "none"

\* new Date(x) is a valid date (getTime() is not NaN); new Date(undefined) is not
DateValid(x) == x.k \in {"ymd", "iso"}

\* new Date(x).getTime() of a valid date, in ticks
DateTicks(x) == IF x.k = "ymd" THEN x.v * TicksPerDay ELSE x.v

\* new Date().toISOString().slice(0, 10): the UTC day of the instant t
todayISO(t) == Ymd(t \div TicksPerDay)

\* a slip: the test written as !(d < cutoff), which an invalid date passes
InWindowNotBefore(a, cutoff) ==
    LET d == IF Truthy(a.date) THEN a.date
             ELSE IF Truthy(a.createdAt) THEN a.createdAt
             ELSE Iso(0)
    IN ~(DateValid(d) /\ DateTicks(d) < cutoff)

\* new Date(a.date || a.createdAt || 0) >= cutoff
InWindow(a, cutoff) ==
    LET d == IF Truthy(a.date) THEN a.date
             ELSE IF Truthy(a.createdAt) THEN a.createdAt
             ELSE Iso(0)
    IN DateValid(d) /\ DateTicks(d) >= cutoff

\* cutoff = new Date(); cutoff.setDate(cutoff.getDate() - days)
Cutoff(t, days) == t - days * TicksPerDay

\* a slip: the filter is left out
recentWindowUnfiltered(articles, days, t) == articles

recentWindow(articles, days, t) ==
    SelectSeq(articles, LAMBDA a : InWindow(a, Cutoff(t, days)))

\* ------------------------------------------------------------------------
\* Drafts
\* ------------------------------------------------------------------------

\* String.prototype.normalize("NFKD") on one character: "é" decomposes into
\* "e" and the combining acute accent (written "´" here)
NfkdChar(c) == IF c = "é" THEN <<"e", "´">> ELSE <<c>>

RECURSIVE Nfkd(_)
Nfkd(s) == IF s = <<>> THEN <<>> ELSE NfkdChar(Head(s)) \o Nfkd(Tail(s))

\* .replace(/[^\w\s-]/g, "")
KeepWordChars(s) == SelectSeq(s, LAMBDA c : c \in SlugChars)

\* .replace(/\s+/g, "-")
RECURSIVE SpacesToHyphen(_)
SpacesToHyphen(s) ==
    IF s = <<>> THEN <<>>
    ELSE IF Head(s) \in SpaceChars
         THEN IF Len(s) > 1 /\ s[2] \in SpaceChars
              THEN SpacesToHyphen(Tail(s))
              ELSE <<"-">> \o SpacesToHyphen(Tail(s))
         ELSE <<Head(s)>> \o SpacesToHyphen(Tail(s))

\* .replace(/-+/g, "-")
RECURSIVE CollapseHyphens(_)
CollapseHyphens(s) ==
    IF s = <<>> THEN <<>>
    ELSE IF Head(s) = "-" /\ Len(s) > 1 /\ s[2] = "-"
         THEN CollapseHyphens(Tail(s))
         ELSE <<Head(s)>> \o CollapseHyphens(Tail(s))

slugify(str) ==
    CollapseHyphens(SpacesToHyphen(trim(KeepWordChars(Nfkd(toLowerCase(str))))))

\* the decimal digits of a natural number
RECURSIVE Digits(_)
Digits(n) ==
    LET d == <<"0","1","2","3","4","5","6","7","8","9">>[(n % 10) + 1]
    IN IF n < 10 THEN <<d>> ELSE Append(Digits(n \div 10), d)

\* `insurance-${todayISO}`, the day written as its number
DefaultId(today) ==
    <<"i","n","s","u","r","a","n","c","e","-">> \o Digits(today.v)

DefaultTag == <<"I","n","s","u","r","a","n","c","e">>

\* a || b on strings: the empty (or absent) string is falsy
Or(a, b) == IF a # <<>> THEN a ELSE b

\* obj: what the model returned, [id, title, body_html, primary_tag, tags];
\* an absent key is the empty string.  excerpt and author are carried along
\* unread and are left out.
normalizeDraft(obj, today) ==
    [id |-> slugify(Or(obj.id, Or(obj.title, DefaultId(today)))),
     title |-> obj.title,
     body_html |-> obj.body_html,
     date |-> today,
     primary_tag |-> Or(obj.primary_tag,
                        Or(IF obj.tags # <<>> THEN obj.tags[1] ELSE <<>>, DefaultTag)),
     tags |-> obj.tags]

\* ------------------------------------------------------------------------
\* The novelty guard: generateArticleJSONWithNovelty
\* ------------------------------------------------------------------------

\* [...new Set(list)]: the first occurrence of each member, in order
RECURSIVE Dedup(_)
Dedup(list) ==
    IF list = <<>> THEN <<>>
    ELSE LET init == Dedup(SubSeq(list, 1, Len(list) - 1))
             x == list[Len(list)]
         IN IF x \in RangeOf(init) THEN init ELSE Append(init, x)

RECURSIVE Flatten(_)
Flatten(lists) == IF lists = <<>> THEN <<>> ELSE Head(lists) \o Flatten(Tail(lists))

Take(list, n) == SubSeq(list, 1, IF Len(list) < n THEN Len(list) ELSE n)

\* the part of the prompt that varies: the avoid lines and the forced angle
\* (-1: none forced, the angle of the day is used)
buildDailyPrompt(avoidTitles, avoidTags, forceAngle) ==
    [titles |-> Take(avoidTitles, PROMPT_AVOID_MAX),
     tags |-> Take(avoidTags, PROMPT_AVOID_MAX),
     angle |-> forceAngle]

ForceAngle(attempt) == IF attempt = 0 THEN -1 ELSE (attempt + 1) % ANGLE_COUNT

NoReason == [kind |-> "none", against |-> <<>>, score |-> 0]

NoDraft == [id |-> <<>>, title |-> <<>>, body_html |-> <<>>, date |-> NoDate,
            primary_tag |-> <<>>, tags |-> <<>>]

NoPrompt == [titles |-> <<>>, tags |-> <<>>, angle |-> -1]

GuardOff ==
    [pc |-> "off", attempt |-> 0, avoidTitles |-> <<>>, avoidTags |-> <<>>,
     lastReason |-> NoReason, calls |-> 0, prompt |-> NoPrompt, draft |-> NoDraft]

\* a slip: the calls of all attempts are issued at once, before any answer
GuardStartAllAtOnce(recents, keyPresent) ==
    IF ~keyPresent
    THEN [GuardOff EXCEPT !.pc = "nokey"]
    ELSE [GuardOff EXCEPT !.pc = "awaitLLM", !.calls = MAX_REPROMPTS + 1]

\* lines 274-295: up to the first call of the model
GuardStart(recents, keyPresent) ==
    LET avoidTitles == SelectSeq([i \in DOMAIN recents |-> recents[i].title],
                                 LAMBDA t : t # <<>>)
        avoidTags ==
            Dedup(Flatten([i \in DOMAIN recents |->
                (IF recents[i].tag # <<>> THEN <<toLowerCase(recents[i].tag)>> ELSE <<>>)
                \o [j \in DOMAIN recents[i].tags |-> toLowerCase(recents[i].tags[j])]]))
    IN IF ~keyPresent
       THEN [GuardOff EXCEPT !.pc = "nokey"]
       ELSE [pc |-> "awaitLLM", attempt |-> 0,
             avoidTitles |-> avoidTitles, avoidTags |-> avoidTags,
             lastReason |-> NoReason, calls |-> 1,
             prompt |-> buildDailyPrompt(avoidTitles, avoidTags, ForceAngle(0)),
             draft |-> NoDraft]

\* `similar ${clash.clash} vs "${clash.against.title}" (score ${clash.score.toFixed(2)})`
ReasonOf(clash) ==
    [kind |-> clash.clash, against |-> clash.against, score |-> toFixed2(clash.score)]

\* a slip: the first clash of the run is kept
NextReasonKeepsFirst(lastReason, clash) ==
    IF lastReason.kind = "none" THEN ReasonOf(clash) ELSE lastReason

\* lastReason after a clash
NextReason(lastReason, clash) == ReasonOf(clash)

\* a slip: while (attempt < MAX_REPROMPTS)
LoopContinuesOneShort(attempt) == attempt < MAX_REPROMPTS

\* a slip: while (attempt <= MAX_REPROMPTS + 1)
LoopContinuesOneMore(attempt) == attempt <= MAX_REPROMPTS + 1

\* while (attempt <= MAX_REPROMPTS)
LoopContinues(attempt) == attempt <= MAX_REPROMPTS

\* a slip: if (clash) return draft
AcceptsNegated(clash) == clash.clash # "none"

\* if (!clash) return draft
Accepts(clash) == clash.clash = "none"

\* a slip: list[0] = x, which overwrites the newest entry
UnshiftOverwrites(list, x) == <<x>> \o (IF list = <<>> THEN <<>> ELSE Tail(list))

\* a slip: push, which adds at the end
UnshiftAppends(list, x) == Append(list, x)

\* Array.prototype.unshift
Unshift(list, x) == <<x>> \o list

\* lines 296-313: from the model's answer to the next call, the return or the
\* final throw
GuardOnReturn(g, recents, raw, today) ==
    LET draft == normalizeDraft(raw, today)
        clash == isTooSimilar(
                    [title |-> draft.title, body_html |-> draft.body_html],
                    [i \in DOMAIN recents |->
                        [title |-> recents[i].title, body |-> recents[i].body]])
        avoidTitles == Unshift(g.avoidTitles, draft.title)
        avoidTags == IF draft.primary_tag # <<>>
                     THEN Unshift(g.avoidTags, toLowerCase(draft.primary_tag))
                     ELSE g.avoidTags
        attempt == g.attempt + 1
    IN IF Accepts(clash)
       THEN [g EXCEPT !.pc = "accepted", !.draft = draft]
       ELSE IF LoopContinues(attempt)
            THEN [g EXCEPT !.attempt = attempt,
                           !.avoidTitles = avoidTitles,
                           !.avoidTags = avoidTags,
                           !.lastReason = NextReason(g.lastReason, clash),
                           !.calls = g.calls + 1,
                           !.prompt = buildDailyPrompt(avoidTitles, avoidTags,
                                                       ForceAngle(attempt))]
            ELSE [g EXCEPT !.pc = "exhausted",
                           !.attempt = attempt,
                           !.avoidTitles = avoidTitles,
                           !.avoidTags = avoidTags,
                           !.lastReason = NextReason(g.lastReason, clash)]

\* a slip: the loop catches the failure and goes on to the next attempt
GuardOnThrowRetries(g) ==
    IF g.attempt + 1 <= MAX_REPROMPTS
    THEN [g EXCEPT !.attempt = g.attempt + 1, !.calls = g.calls + 1]
    ELSE [g EXCEPT !.pc = "exhausted", !.attempt = g.attempt + 1]

\* callOpenAIJSON throws (HTTP status not ok, or JSON.parse fails): nothing
\* in the loop catches it
GuardOnThrow(g) == [g EXCEPT !.pc = "genfailed"]

\* ------------------------------------------------------------------------
\* Array.prototype.sort((a, b) => new Date(b.date) - new Date(a.date)), as V8
\* runs it on an array of fewer than 64 elements: the leading run is found
\* (and reversed when strictly descending), then the rest is placed by
\* binary insertion.  A comparator result of NaN counts as 0.
\* ------------------------------------------------------------------------

\* a slip: new Date(a.date) - new Date(b.date), oldest first
ByDateAsc(a, b) ==
    IF DateValid(a.date) /\ DateValid(b.date)
    THEN DateTicks(a.date) - DateTicks(b.date)
    ELSE 0

ByDateDesc(a, b) ==
    IF DateValid(a.date) /\ DateValid(b.date)
    THEN DateTicks(b.date) - DateTicks(a.date)
    ELSE 0

Reverse(s) == [i \in DOMAIN s |-> s[Len(s) + 1 - i]]

\* the last index of the run that starts at 1, idx being the next candidate
RECURSIVE RunEnd(_, _, _)
RunEnd(s, desc, idx) ==
    IF idx > Len(s) THEN idx - 1
    ELSE LET order == ByDateDesc(s[idx], s[idx - 1])
         IN IF (desc /\ order >= 0) \/ (~desc /\ order < 0)
            THEN idx - 1
            ELSE RunEnd(s, desc, idx + 1)

RECURSIVE BinarySearch(_, _, _, _)
BinarySearch(s, pivot, left, right) ==
    IF left >= right THEN left
    ELSE LET mid == left + ((right - left) \div 2)
         IN IF ByDateDesc(pivot, s[mid]) < 0
            THEN BinarySearch(s, pivot, left, mid)
            ELSE BinarySearch(s, pivot, mid + 1, right)

RECURSIVE BinaryInsertionSort(_, _)
BinaryInsertionSort(s, start) ==
    IF start > Len(s) THEN s
    ELSE LET pivot == s[start]
             at == BinarySearch(s, pivot, 1, start)
         IN BinaryInsertionSort(
                SubSeq(s, 1, at - 1) \o <<pivot>> \o SubSeq(s, at, start - 1)
                    \o SubSeq(s, start + 1, Len(s)),
                start + 1)

SortNewestFirst(s) ==
    IF Len(s) < 2 THEN s
    ELSE LET desc == ByDateDesc(s[2], s[1]) < 0
             run == RunEnd(s, desc, 3)
             made == IF desc
                     THEN Reverse(SubSeq(s, 1, run)) \o SubSeq(s, run + 1, Len(s))
                     ELSE s
         IN BinaryInsertionSort(made, run + 1)

\* ------------------------------------------------------------------------
\* main
\* ------------------------------------------------------------------------

\* articles.json: [kind |-> "missing" | "unparseable" | "list", list |-> ...]
readArticles(f) == IF f.kind = "list" THEN f.list ELSE <<>>

\* lines 421-427: the pool handed to the guard
PoolOf(articles, t) ==
    LET inWin == recentWindow(articles, NOVELTY_WINDOW_DAYS, t)
    IN [i \in DOMAIN inWin |->
          [title |-> inWin[i].title, body |-> inWin[i].body,
           tag |-> inWin[i].tag, tags |-> inWin[i].tags, date |-> inWin[i].date]]

\* lines 444-477: the record to save; suffix is crypto.randomBytes(2) in hex.
\* excerpt, author and image are written and never read: they are left out.
FinalRecord(draft, articles, suffix) ==
    LET sameDayTitle == \E i \in DOMAIN articles :
                            articles[i].title = draft.title /\ articles[i].date = draft.date
        sameId == \E i \in DOMAIN articles : articles[i].id = draft.id
        nearDup == articles # <<>> /\
                   isTooSimilar([title |-> draft.title, body_html |-> draft.body_html],
                                <<[title |-> articles[1].title,
                                   body |-> articles[1].body]>>).clash # "none"
        finalId == IF sameDayTitle \/ sameId \/ nearDup
                   THEN draft.id \o <<"-">> \o suffix
                   ELSE draft.id
    IN [id |-> finalId, title |-> draft.title, body |-> draft.body_html,
        tag |-> draft.primary_tag, tags |-> draft.tags, date |-> draft.date,
        createdAt |-> NoDate]

\* a slip: the new record replaces the article that has its id
NextArticlesUpsert(finalRecord, articles) ==
    SortNewestFirst(<<finalRecord>> \o
                    SelectSeq(articles, LAMBDA a : a.id # finalRecord.id))

\* lines 479-481
NextArticles(finalRecord, articles) == SortNewestFirst(<<finalRecord>> \o articles)

\* ------------------------------------------------------------------------
\* The values the model draws from
\* ------------------------------------------------------------------------

\* the first instant of the model's clock: 00:00 UTC of day Day0
Day0 == NOVELTY_WINDOW_DAYS + 10

T0 == Day0 * TicksPerDay

WindowTicks == NOVELTY_WINDOW_DAYS * TicksPerDay

\* the instants at which a run may start: around T0 and around T0 + 90 days
RunInstants == {T0, T0 + 1, T0 + WindowTicks, T0 + WindowTicks + 1}

\* "Ab cd"
TitleA == <<"A","b"," ","c","d">>

\* "ab cd ef!": 2 of 3 tokens shared with TitleA
TitleB == <<"a","b"," ","c","d"," ","e","f","!">>

\* "gh ij"
TitleC == <<"g","h"," ","i","j">>

\* "Kl mn"
TitleD == <<"K","l"," ","m","n">>

\* "gh ij kl op": 2 of 4 tokens shared with TitleC, 1 of 5 with TitleD
TitleE == <<"g","h"," ","i","j"," ","k","l"," ","o","p">>

\* "<p>a b c d e f</p>"
BodyA == <<"<","p",">","a"," ","b"," ","c"," ","d"," ","e"," ","f","<","/","p",">">>

\* "a b c d e f g h": shares 2 of its 4 shingles with BodyA
BodyB == <<"a"," ","b"," ","c"," ","d"," ","e"," ","f"," ","g"," ","h">>

\* "m n o p q r"
BodyC == <<"m"," ","n"," ","o"," ","p"," ","q"," ","r">>

\* "s t u v w x"
BodyD == <<"s"," ","t"," ","u"," ","v"," ","w"," ","x">>

\* "a b": fewer than SHINGLE_N tokens
BodyShort == <<"a"," ","b">>

TagAuto == <<"A","u","t","o">>

TagHome == <<"h","o","m","e">>

\* what the model may answer
Raws ==
    {[id |-> <<>>, title |-> TitleB, body_html |-> BodyD,
      primary_tag |-> TagAuto, tags |-> <<TagAuto, TagHome>>],
     [id |-> <<>>, title |-> TitleD, body_html |-> BodyB,
      primary_tag |-> <<>>, tags |-> <<TagHome>>],
     [id |-> <<>>, title |-> TitleD, body_html |-> BodyD,
      primary_tag |-> TagHome, tags |-> <<TagHome>>],
     [id |-> <<"x">>, title |-> TitleE, body_html |-> BodyShort,
      primary_tag |-> TagAuto, tags |-> <<>>],
     [id |-> <<>>, title |-> <<>>, body_html |-> BodyShort,
      primary_tag |-> <<>>, tags |-> <<>>]}

Article(title, body, date, createdAt) ==
    [id |-> slugify(title), title |-> title, body |-> body,
     tag |-> TagAuto, tags |-> <<TagAuto>>, date |-> date,
     createdAt |-> createdAt]

ListFile(list) == [kind |-> "list", list |-> list]

\* a history edited by hand: the oldest article comes first, under the id
\* "kl-mn-beef" (an id an earlier clash of ids could have left), and the
\* article "Kl mn" has a date that does not parse
EditedFile ==
    ListFile(<<[Article(TitleA, BodyA, Ymd(Day0 - NOVELTY_WINDOW_DAYS - 5), NoDate)
                    EXCEPT !.id = slugify(TitleD) \o <<"-", "b", "e", "e", "f">>],
               Article(TitleC, BodyC, Ymd(Day0 - 1), NoDate),
               Article(TitleD, BodyD, BadDate, NoDate)>>)

\* the contents articles.json may have before the first run
InitialFiles ==
    {[kind |-> "missing", list |-> <<>>],
     [kind |-> "unparseable", list |-> <<>>],
     ListFile(<<>>),
     ListFile(<<Article(TitleA, BodyA, Ymd(Day0 - 1), NoDate)>>),
     ListFile(<<Article(TitleC, BodyC, Ymd(Day0 - 1), NoDate),
                Article(TitleA, BodyA, Ymd(Day0 - NOVELTY_WINDOW_DAYS), NoDate)>>),
     ListFile(<<Article(TitleC, BodyC, Ymd(Day0 - 1), NoDate),
                Article(TitleA, BodyA, Ymd(Day0 - NOVELTY_WINDOW_DAYS - 1), NoDate)>>),
     ListFile(<<Article(TitleA, BodyA, Iso(T0 + 1 - WindowTicks), NoDate)>>),
     ListFile(<<Article(TitleC, BodyC, Ymd(Day0 - 1), NoDate),
                Article(TitleA, BodyA, BadDate, Ymd(Day0 - 1)),
                Article(TitleD, BodyD, NoDate, NoDate)>>),
     ListFile(<<Article(TitleA, BodyA, NoDate, Ymd(Day0 - 1)),
                Article(TitleD, BodyD, NoDate, BadDate)>>),
     EditedFile}

\* a history of daily articles longer than the prompt's avoid lists: one
\* article a day titled "t1", "t2", ... back from yesterday, and "Ab cd"
\* as the oldest
LongFile ==
    ListFile([i \in 1..(PROMPT_AVOID_MAX + 1) |->
                IF i <= PROMPT_AVOID_MAX
                THEN Article(<<"t">> \o Digits(i), BodyShort, Ymd(Day0 - i), NoDate)
                ELSE Article(TitleA, BodyA, Ymd(Day0 - i), NoDate)])

\* crypto.randomBytes(2).toString("hex")
Suffixes == {<<"0","0","0","0">>, <<"b","e","e","f">>}

\* an article older than any window, which every TitleD draft would clash with
Ancient == Article(TitleD, BodyD, Ymd(0), NoDate)

\* a history that holds the same records inside the window as `articles`, in
\* the same order, and another record outside it
TwinOf(articles, t) ==
    <<Ancient>> \o recentWindow(articles, NOVELTY_WINDOW_DAYS, t)

\* ------------------------------------------------------------------------
\* State
\* ------------------------------------------------------------------------

VARIABLES
    file,       \* docs/insurance/data/articles.json
    now,        \* the clock, in ticks
    runs,       \* runs of the script started so far
    pc,         \* where main is: "idle", "guard", "images", "done", "failed"
    exitCode,   \* process.exitCode of the last run
    error,      \* what the last run's catch received
    articles,   \* main's `articles`
    recent,     \* main's `recent`, the comparison pool
    g,          \* the locals of generateArticleJSONWithNovelty
    last,       \* how the latest call of the model ended, and its answer
    recent2,    \* the pool of the twin history
    g2          \* the guard run on the twin history with the same answers

insuranceVars == <<file, now, runs, pc, exitCode, error, articles, recent, g,
                   last, recent2, g2>>

\* the similarity functions applied to texts a caller hands them
VARIABLES
    inA,        \* the first text: a title, a body, or the text to tokenize
    inB,        \* the second text
    fn,         \* the function applied: "none" before the call
    out         \* what it returned

textVars == <<inA, inB, fn, out>>

\* the plant generators: generate-plants.js writes docs/plants/data/
\* articles.json, the Markdown generator writes a post; both keep
\* docs/plants/data/used_plants.json
VARIABLES
    used,           \* used_plants.json: the plant keys, oldest first
    plantArticles,  \* the plants' articles.json, newest first
    posts,          \* the Markdown posts written, oldest first
    prun            \* the running plant script and its locals

plantVars == <<used, plantArticles, posts, prun>>

\* fetchPixabayIllustrations of generate-insurance.js
VARIABLES
    im,         \* the locals of fetchPixabayIllustrations and downloadToFile
    imgDir      \* IMG_DIR: the slots whose image file has been written

imageVars == <<im, imgDir>>

vars == <<insuranceVars, textVars, plantVars, imageVars>>

\* what the insurance script leaves alone
notInsurance == <<textVars, plantVars, imageVars>>

NoOut == [tokens |-> <<>>, score |-> <<0, 1>>, swapped |-> <<0, 1>>,
          clash |-> NoClash]

\* nothing has been handed to the similarity functions
TextIdle == inA = <<>> /\ inB = <<>> /\ fn = "none" /\ out = NoOut

\* the model's answer: plant_key, common_name and scientific_name (the other
\* keys are copied into the article and never tested); "" is falsy
NoArticle == [plant_key |-> <<>>, common_name |-> <<>>, scientific_name |-> <<>>]

\* no plant script is running; n counts the runs so far
PlantOff ==
    [script |-> "none", pc |-> "idle", used |-> <<>>, requests |-> 0,
     article |-> NoArticle, n |-> 0]

\* fetchPixabayIllustrations has not been called.  pc is "idle", "search",
\* "download", "backoff", "returned" or "threw"; ranked holds, for each hit
\* kept, whether it carries an image url ("src") or none ("nosrc"); i is the
\* loop index, attempt and delay are downloadToFile's; out is the result.
ImOff ==
    [pc |-> "idle", count |-> 0, queriesLeft |-> 0, ranked |-> <<>>, i |-> 0,
     attempt |-> 0, delay |-> 0, out |-> <<>>]

ImagesIdle == im = ImOff /\ imgDir = {}

\* no plant script has run yet
PlantsIdle ==
    used = <<>> /\ plantArticles = <<>> /\ posts = <<>> /\ prun = PlantOff

NoError == [kind |-> "none", attempts |-> 0, reason |-> NoReason]

NoRaw == [id |-> <<>>, title |-> <<>>, body_html |-> <<>>,
          primary_tag |-> <<>>, tags |-> <<>>]

NoCall == [outcome |-> "none", raw |-> NoRaw]

Init ==
    /\ file \in InitialFiles
    /\ now = T0
    /\ runs = 0
    /\ pc = "idle"
    /\ exitCode = 0
    /\ error = NoError
    /\ articles = <<>>
    /\ recent = <<>>
    /\ g = GuardOff
    /\ last = NoCall
    /\ recent2 = <<>>
    /\ g2 = GuardOff
    /\ TextIdle
    /\ PlantsIdle
    /\ ImagesIdle

\* new Error(`Novelty guard: could not produce ... after ${MAX_REPROMPTS + 1}
\* attempts (${lastReason}).`)
NoveltyError(lastReason) ==
    [kind |-> "novelty", attempts |-> MAX_REPROMPTS + 1, reason |-> lastReason]

\* the script is started at instant t: lines 413-430 up to the first await of
\* the model.  Without the API key main throws at once.
StartRun(t, keyPresent) ==
    /\ pc \in {"idle", "done", "failed"}
    /\ runs < MaxRuns
    /\ t >= now
    /\ now' = t
    /\ runs' = runs + 1
    /\ last' = NoCall
    /\ UNCHANGED <<file, notInsurance>>
    /\ IF ~keyPresent
       THEN /\ pc' = "failed"
            /\ exitCode' = 1
            /\ error' = [NoError EXCEPT !.kind = "nokey"]
            /\ articles' = <<>>
            /\ recent' = <<>>
            /\ g' = GuardOff
            /\ recent2' = <<>>
            /\ g2' = GuardOff
       ELSE /\ pc' = "guard"
            /\ exitCode' = 0
            /\ error' = NoError
            /\ articles' = readArticles(file)
            /\ recent' = PoolOf(articles', t)
            /\ g' = GuardStart(recent', keyPresent)
            /\ recent2' = PoolOf(TwinOf(articles', t), t)
            /\ g2' = GuardStart(recent2', keyPresent)

\* a slip: the catch logs the failure and leaves process.exitCode alone
MainAfterGuardLogsOnly(guard) ==
    /\ pc' = IF guard.pc = "accepted" THEN "images"
             ELSE IF guard.pc \in {"exhausted", "genfailed"} THEN "failed"
             ELSE "guard"
    /\ exitCode' = exitCode
    /\ error' = IF guard.pc = "exhausted" THEN NoveltyError(guard.lastReason)
                ELSE IF guard.pc = "genfailed"
                     THEN [NoError EXCEPT !.kind = "generation"]
                     ELSE error

\* main after a step of the guard: the draft is returned to main, or main's
\* catch receives what the guard threw, or the guard awaits the model again
MainAfterGuard(guard) ==
    /\ pc' = IF guard.pc = "accepted" THEN "images"
             ELSE IF guard.pc \in {"exhausted", "genfailed"} THEN "failed"
             ELSE "guard"
    /\ exitCode' = IF guard.pc \in {"exhausted", "genfailed"} THEN 1 ELSE exitCode
    /\ error' = IF guard.pc = "exhausted" THEN NoveltyError(guard.lastReason)
                ELSE IF guard.pc = "genfailed"
                     THEN [NoError EXCEPT !.kind = "generation"]
                     ELSE error

\* callOpenAIJSON resolves with raw: the rest of the loop body runs, up to the
\* next call, the return to main or the throw that main's catch receives
LLMReturns(raw) ==
    /\ pc = "guard"
    /\ g.pc = "awaitLLM"
    /\ last' = [outcome |-> "returned", raw |-> raw]
    /\ g' = GuardOnReturn(g, recent, raw, todayISO(now))
    /\ g2' = IF g2.pc = "awaitLLM"
             THEN GuardOnReturn(g2, recent2, raw, todayISO(now))
             ELSE g2
    /\ MainAfterGuard(g')
    /\ UNCHANGED <<file, now, runs, articles, recent, recent2, notInsurance>>

\* callOpenAIJSON rejects: the status is not ok, or JSON.parse of the content
\* fails
LLMThrows ==
    /\ pc = "guard"
    /\ g.pc = "awaitLLM"
    /\ last' = [outcome |-> "threw", raw |-> NoRaw]
    /\ g' = GuardOnThrow(g)
    /\ g2' = IF g2.pc = "awaitLLM" THEN GuardOnThrow(g2) ELSE g2
    /\ MainAfterGuard(g')
    /\ UNCHANGED <<file, now, runs, articles, recent, recent2, notInsurance>>

\* generateDeepAIIllustrations resolves (a DeepAI image or the placeholder):
\* lines 443-484, the record is built, the list written, and the process
\* ends, its locals with it
ImagesReturn(suffix) ==
    /\ pc = "images"
    /\ file' = ListFile(NextArticles(FinalRecord(g.draft, articles, suffix), articles))
    /\ pc' = "done"
    /\ articles' = <<>>
    /\ recent' = <<>>
    /\ g' = GuardOff
    /\ last' = NoCall
    /\ recent2' = <<>>
    /\ g2' = GuardOff
    /\ UNCHANGED <<now, runs, exitCode, error, notInsurance>>

\* generateDeepAIIllustrations rejects (ensureDir(IMG_DIR) fails)
ImagesThrows ==
    /\ pc = "images"
    /\ pc' = "failed"
    /\ exitCode' = 1
    /\ error' = [NoError EXCEPT !.kind = "images"]
    /\ articles' = <<>>
    /\ recent' = <<>>
    /\ g' = GuardOff
    /\ last' = NoCall
    /\ recent2' = <<>>
    /\ g2' = GuardOff
    /\ UNCHANGED <<file, now, runs, notInsurance>>

Next ==
    \/ \E t \in RunInstants, keyPresent \in BOOLEAN : StartRun(t, keyPresent)
    \/ \E raw \in Raws : LLMReturns(raw)
    \/ LLMThrows
    \/ \E suffix \in Suffixes : ImagesReturn(suffix)
    \/ ImagesThrows

Spec == Init /\ [][Next]_vars

\* the script run on the long history
InitLong ==
    /\ file = LongFile
    /\ now = T0
    /\ runs = 0
    /\ pc = "idle"
    /\ exitCode = 0
    /\ error = NoError
    /\ articles = <<>>
    /\ recent = <<>>
    /\ g = GuardOff
    /\ last = NoCall
    /\ recent2 = <<>>
    /\ g2 = GuardOff
    /\ TextIdle
    /\ PlantsIdle
    /\ ImagesIdle

SpecLongHistory == InitLong /\ [][Next]_vars

\* ------------------------------------------------------------------------
\* Properties
\* ------------------------------------------------------------------------

\* the comparison pool as isTooSimilar is given it
ScreenOf(raw) ==
    LET draft == normalizeDraft(raw, todayISO(now))
    IN isTooSimilar([title |-> draft.title, body_html |-> draft.body_html], recent)

\* C1: with MAX_REPROMPTS = 3, a run in which every answer of the model
\* clashes calls the model exactly 4 times and then fails with the
\* novelty-exhausted error: while the guard awaits the model every earlier
\* answer clashed and the calls are one more than the clashes and at most 4;
\* the fourth clash ends the guard; and the guard is exhausted only after 4
\* calls.
C1_ExhaustedAfterFourCalls ==
    /\ MAX_REPROMPTS = 3
    /\ g.pc = "awaitLLM" => g.calls = g.attempt + 1 /\ g.calls <= 4
    /\ g.attempt >= 4 => g.pc = "exhausted"
    /\ g.pc = "exhausted" =>
          /\ g.calls = 4
          /\ g.attempt = 4
          /\ pc = "failed"
          /\ error.kind = "novelty"
          /\ error.attempts = 4

\* four answers with the title "ab cd ef!" against a pool holding "Ab cd"
C1_Witness ==
    /\ g.pc = "exhausted"
    /\ g.calls = 4
    /\ g.lastReason.kind = "title"
    /\ \A i \in 1..4 : g.avoidTitles[i] = TitleB

\* C2: when a call of the model fails, the failure leaves the guard at once:
\* the failed call is not counted as a clash (attempt, avoid lists and
\* lastReason are unchanged), no further call is made (calls is unchanged and
\* the only step after it is the next run), and main's catch receives the
\* generation failure, not the novelty-exhausted error.
C2_GenerationFailurePropagates ==
    /\ [](last.outcome = "threw" =>
            /\ g.pc = "genfailed"
            /\ pc = "failed"
            /\ exitCode = 1
            /\ error.kind = "generation")
    /\ [][last'.outcome = "threw" /\ last.outcome # "threw" =>
            /\ g'.calls = g.calls
            /\ g'.attempt = g.attempt
            /\ g'.avoidTitles = g.avoidTitles
            /\ g'.avoidTags = g.avoidTags
            /\ g'.lastReason = g.lastReason]_vars
    /\ [][last.outcome = "threw" => runs' = runs + 1]_vars

\* the second call of a run fails, after one clash
C2_Witness ==
    /\ last.outcome = "threw"
    /\ g.attempt = 1
    /\ g.calls = 2
    /\ g.lastReason.kind = "title"

\* C3: the novelty-exhausted error carries the clash of the last answer: its
\* kind, the title of the pool record it clashed with and the score (as
\* toFixed(2) prints it).
C3_ErrorCarriesLastClash ==
    g.pc = "exhausted" =>
        LET clash == ScreenOf(last.raw)
        IN /\ clash.clash # "none"
           /\ error.kind = "novelty"
           /\ error.reason = [kind |-> clash.clash,
                              against |-> clash.against,
                              score |-> toFixed2(clash.score)]

\* the first answer clashed by title (score 0.67), the last one by body
\* (score 0.50)
C3_Witness ==
    /\ g.pc = "exhausted"
    /\ g.avoidTitles[4] = TitleB
    /\ error.reason = [kind |-> "body", against |-> TitleA, score |-> 50]

\* C4: with an empty comparison pool the first answer of the model is
\* accepted: one call is made and the draft returned to main is that answer
\* (normalized).
C4_EmptyPoolAcceptsFirst ==
    recent = <<>> /\ last.outcome = "returned" =>
        /\ g.pc = "accepted"
        /\ pc = "images"
        /\ g.calls = 1
        /\ g.attempt = 0
        /\ g.draft = normalizeDraft(last.raw, todayISO(now))

\* articles.json holds the empty list and the answer "ab cd ef!" is accepted
C4_Witness ==
    /\ file = ListFile(<<>>)
    /\ articles = <<>>
    /\ g.pc = "accepted"
    /\ g.calls = 1
    /\ g.draft.title = TitleB

\* a is a member of the comparison pool `pool`
InPool(a, pool) ==
    \E j \in DOMAIN pool :
        pool[j].title = a.title /\ pool[j].body = a.body /\ pool[j].date = a.date

\* the UTC day of the run
Today == now \div TicksPerDay

\* C5: the lower bound of the window is inclusive: an article dated the day
\* that lies NOVELTY_WINDOW_DAYS before today is in the pool, and an article
\* dated a day earlier is not.
C5_InclusiveLowerBound ==
    pc = "guard" =>
        \A i \in DOMAIN articles :
            /\ articles[i].date = Ymd(Today - NOVELTY_WINDOW_DAYS) =>
                    InPool(articles[i], recent)
            /\ articles[i].date = Ymd(Today - NOVELTY_WINDOW_DAYS - 1) =>
                    ~InPool(articles[i], recent)

\* C6: records outside the window do not influence the guard: run on a
\* history with the same records inside the window and others outside it,
\* and given the same answers, the guard takes the same decisions and builds
\* the same avoid lists.
C6_OutsideWindowNoInfluence ==
    /\ recent2 = recent
    /\ g2.pc = g.pc
    /\ g2.attempt = g.attempt
    /\ g2.calls = g.calls
    /\ g2.avoidTitles = g.avoidTitles
    /\ g2.avoidTags = g.avoidTags
    /\ g2.lastReason = g.lastReason
    /\ g2.draft = g.draft

\* a draft titled "Kl mn" is accepted after a retry, while articles.json
\* holds an article outside the window and the twin history holds the old
\* article titled "Kl mn"
C6_Witness ==
    /\ g.pc = "accepted"
    /\ g.attempt >= 1
    /\ g.draft.title = TitleD
    /\ Ancient.title = TitleD
    /\ \E i \in DOMAIN articles : ~InPool(articles[i], recent)

\* C7, as claimed: an article whose date is missing or unparseable is never
\* in the pool.
C7_MissingOrBadDateExcluded ==
    pc = "guard" =>
        \A i \in DOMAIN articles :
            articles[i].date.k \in {"none", "bad"} => ~InPool(articles[i], recent)

\* C7, amended: an article whose date is unparseable, or whose date is
\* missing while its createdAt is missing or unparseable, is never in the
\* pool and does not fail the run; an article whose date is missing is dated
\* by its createdAt, and is in the pool when that lies in the window.
C7_NoUsableDateExcluded ==
    pc = "guard" =>
        /\ error = NoError
        /\ \A i \in DOMAIN articles :
            LET a == articles[i]
            IN /\ (a.date.k = "bad" \/
                    (a.date.k = "none" /\ a.createdAt.k \in {"none", "bad"}))
                       => ~InPool(a, recent)
               /\ (a.date.k = "none" /\ DateValid(a.createdAt) /\
                    DateTicks(a.createdAt) >= Cutoff(now, NOVELTY_WINDOW_DAYS))
                       => InPool(a, recent)

\* the history holds an article with an unparseable date and one with no
\* date, and only the third article is in the pool
C7_Witness ==
    /\ pc = "guard"
    /\ Len(recent) = 1
    /\ \E i \in DOMAIN articles : articles[i].date.k = "bad"
    /\ \E i \in DOMAIN articles :
            articles[i].date.k = "none" /\ articles[i].createdAt.k = "none"

\* C8: one run of the guard calls the model at most MAX_REPROMPTS + 1 times,
\* whatever the answers, and ends either with a draft returned to main and no
\* error, or with an error and no draft; the answer to call MAX_REPROMPTS + 1
\* ends it.
C8_RetriesBounded ==
    /\ [](/\ g.calls <= MAX_REPROMPTS + 1
          /\ g.pc = "accepted" =>
                pc = "images" /\ error = NoError /\ g.draft # NoDraft
          /\ g.pc \in {"exhausted", "genfailed"} =>
                pc = "failed" /\ error # NoError /\ g.draft = NoDraft)
    /\ [][g.pc = "awaitLLM" /\ g.calls = MAX_REPROMPTS + 1 =>
            g'.pc \in {"accepted", "exhausted", "genfailed"}]_vars

\* a draft is accepted at the last call allowed, after clashes by title and
\* by body
C8_Witness ==
    /\ g.pc = "accepted"
    /\ g.calls = MAX_REPROMPTS + 1
    /\ g.lastReason.kind = "body"
    /\ TitleB \in RangeOf(g.avoidTitles)

\* C9: on a retry the avoid lists handed to the next prompt are those of the
\* attempt before, with the rejected draft's title and (lower-cased) primary
\* tag added; within a run nothing leaves the lists.
C9_ExclusionsGrow ==
    /\ [][g.pc = "awaitLLM" /\ g'.pc = "awaitLLM" /\ g'.calls = g.calls + 1 =>
            LET rejected == normalizeDraft(last'.raw, todayISO(now))
            IN /\ RangeOf(g'.avoidTitles) =
                    RangeOf(g.avoidTitles) \cup {rejected.title}
               /\ RangeOf(g'.avoidTags) =
                    RangeOf(g.avoidTags) \cup {toLowerCase(rejected.primary_tag)}
               /\ g'.prompt.titles = Take(g'.avoidTitles, PROMPT_AVOID_MAX)
               /\ g'.prompt.tags = Take(g'.avoidTags, PROMPT_AVOID_MAX)
               /\ rejected.title \in RangeOf(g'.prompt.titles)]_vars
    /\ [][runs' = runs /\ g'.pc # "off" =>
            /\ RangeOf(g.avoidTitles) \subseteq RangeOf(g'.avoidTitles)
            /\ RangeOf(g.avoidTags) \subseteq RangeOf(g'.avoidTags)]_vars

\* two drafts were rejected: "ab cd ef!" and then "Kl mn", whose primary tag
\* defaulted to its first tag
C9_Witness ==
    /\ g.pc = "awaitLLM"
    /\ g.attempt = 2
    /\ Len(g.avoidTitles) > 2
    /\ g.avoidTitles[1] = TitleD
    /\ g.avoidTitles[2] = TitleB
    /\ g.avoidTags[1] = TagHome
    /\ g.avoidTags[2] = toLowerCase(TagAuto)

\* C10: an article saved by a run is in the comparison pool of every later
\* run that starts within NOVELTY_WINDOW_DAYS days of that run.
C10_SavedArticleInLaterPools ==
    [][pc = "done" /\ pc' = "guard" /\ now' - now <= WindowTicks =>
            \A i \in DOMAIN file.list :
                file.list[i].date = todayISO(now) => InPool(file.list[i], recent')]_vars

\* the ids of a list of articles are pairwise distinct
DistinctIds(list) == \A i, j \in DOMAIN list : list[i].id = list[j].id => i = j

\* C18: if the ids of the articles read are pairwise distinct, the ids of the
\* list the run saves are pairwise distinct too, also when the random suffix
\* was appended: the saved record's id differs from every id read.
C18_IdsStayDistinct ==
    [][pc = "images" /\ pc' = "done" /\ DistinctIds(articles) =>
            DistinctIds(file'.list)]_vars

\* the date of a is before the date of b: both parse, and a's is the earlier
Before(a, b) ==
    DateValid(a.date) /\ DateValid(b.date) /\ DateTicks(a.date) < DateTicks(b.date)

\* C19: the list a successful run writes is ordered newest to oldest: no
\* entry's date is before the date of the entry after it, whatever the order
\* and the dates of the articles read; when every date parses, no entry's
\* date is before that of any later entry.
C19_SavedNewestFirst ==
    pc = "done" =>
        LET l == file.list
        IN /\ \A i \in DOMAIN l : i < Len(l) => ~Before(l[i], l[i + 1])
           /\ (\A i \in DOMAIN l : DateValid(l[i].date)) =>
                 \A i, j \in DOMAIN l : i < j => ~Before(l[i], l[j])

\* the history read held the oldest article before a newer one, and the list
\* written holds them the other way round, after the new article
C19_Witness ==
    /\ pc = "done"
    /\ Len(file.list) = 4
    /\ file.list[1].date = todayISO(now)
    /\ file.list[2] = EditedFile.list[2]
    /\ file.list[3] = EditedFile.list[1]
    /\ Before(file.list[3], file.list[2])

\* the calls of the model that have been issued and have not settled yet:
\* an answer is screened as soon as it arrives (isTooSimilar does not await)
CallsInFlight ==
    g.calls - g.attempt - (IF g.pc \in {"accepted", "genfailed"} THEN 1 ELSE 0)

\* C21: the attempts of the guard are strictly sequential: one call of the
\* model is in flight while the guard awaits it and none otherwise, so that
\* no two calls and no two screenings overlap; and within a run a further
\* call is issued only by the step that screens (and rejects) the answer to
\* the call before it.
C21_AttemptsSequential ==
    /\ [](g.pc \notin {"off", "nokey"} =>
            CallsInFlight = (IF g.pc = "awaitLLM" THEN 1 ELSE 0))
    /\ [][runs' = runs /\ g'.calls > g.calls =>
            /\ g.pc = "awaitLLM"
            /\ g'.calls = g.calls + 1
            /\ g'.attempt = g.attempt + 1
            /\ last'.outcome = "returned"
            /\ ScreenOf(last'.raw).clash # "none"]_vars

\* the third call is in flight, after two answers were screened and rejected
C21_Witness ==
    /\ g.pc = "awaitLLM"
    /\ g.calls = 3
    /\ g.attempt = 2
    /\ last.outcome = "returned"

\* the answer raw, normalized, is below both thresholds against every record
\* of the comparison pool
Novel(raw) ==
    LET draft == normalizeDraft(raw, todayISO(now))
    IN \A i \in DOMAIN recent :
          /\ ~FracGE(jaccard(tokenize(draft.title), tokenize(recent[i].title)),
                     TITLE_SIM_THRESHOLD)
          /\ ~FracGE(bodySimilarity(draft.body_html, recent[i].body),
                     BODY_SIM_THRESHOLD)

\* C23: the guard returns a candidate only if it is novel: the draft returned
\* to main is the (normalized) answer of the last call of the model, and its
\* title similarity is below 0.4 and its body similarity below 0.28 for every
\* record of the comparison pool; and an answer that is below both
\* thresholds for every record is accepted by the step that receives it.
C23_ReturnsOnlyNovel ==
    /\ [](g.pc = "accepted" =>
            /\ last.outcome = "returned"
            /\ g.draft = normalizeDraft(last.raw, todayISO(now))
            /\ Novel(last.raw))
    /\ [][pc = "guard" /\ last'.outcome = "returned" /\ Novel(last'.raw) =>
            /\ g'.pc = "accepted"
            /\ g'.draft = normalizeDraft(last'.raw, todayISO(now))
            /\ g'.attempt = g.attempt
            /\ pc' = "images"]_vars

\* a draft is accepted on the second attempt against a pool of two records,
\* after an answer that clashed with the second record only
C23_Witness ==
    /\ g.pc = "accepted"
    /\ Len(recent) = 2
    /\ g.attempt = 1
    /\ g.lastReason.against = recent[2].title
    /\ g.lastReason.against # recent[1].title

\* C25: on every retry the prompt sent to the model lists the titles of all
\* the candidates rejected earlier in the run, whatever the size of the
\* pool: the prompt holds at most PROMPT_AVOID_MAX titles and as many tags,
\* and the prompt of a retry lists the title just rejected first, followed
\* by the rejected titles the prompt before it listed.
C25_PromptListsRejected ==
    /\ [](g.pc = "awaitLLM" =>
            /\ Len(g.prompt.titles) <= PROMPT_AVOID_MAX
            /\ Len(g.prompt.tags) <= PROMPT_AVOID_MAX
            /\ g.attempt <= Len(g.prompt.titles))
    /\ [][g.pc = "awaitLLM" /\ g'.pc = "awaitLLM" /\ g'.calls = g.calls + 1 =>
            /\ g'.prompt.titles[1] = normalizeDraft(last'.raw, todayISO(now)).title
            /\ \A i \in 1..g.attempt :
                    g'.prompt.titles[i + 1] = g.prompt.titles[i]]_vars

\* the fourth prompt of a run on a pool of more than PROMPT_AVOID_MAX
\* records: it lists the three rejected titles and the first titles of the
\* pool, and no longer the title of the record the answers clashed with
C25_Witness ==
    /\ g.pc = "awaitLLM"
    /\ g.attempt = MAX_REPROMPTS
    /\ Len(recent) > PROMPT_AVOID_MAX
    /\ Len(g.prompt.titles) = PROMPT_AVOID_MAX
    /\ g.prompt.titles[1] = TitleD
    /\ g.prompt.titles[2] = TitleB
    /\ g.prompt.titles[3] = TitleB
    /\ g.prompt.titles[4] = recent[1].title
    /\ g.lastReason.against = TitleA
    /\ TitleA \notin RangeOf(g.prompt.titles)

\* C26: when the guard fails, by a failed call of the model or by novelty
\* exhausted, the run leaves articles.json as it was, generates no image and
\* sets the exit code to 1: the failing step goes from the guard straight to
\* the catch without writing; the images are generated, and the file
\* written, only in a run whose guard returned a draft; and nothing is
\* written after the failure.
C26_GuardFailureWritesNothing ==
    /\ [][pc = "guard" /\ g'.pc \in {"exhausted", "genfailed"} =>
            /\ file' = file
            /\ pc' = "failed"
            /\ exitCode' = 1
            /\ error'.kind \in {"novelty", "generation"}]_vars
    /\ [](pc = "images" => g.pc = "accepted" /\ error = NoError)
    /\ [][file' # file => pc = "images" /\ pc' = "done" /\ exitCode = 0]_vars
    /\ [](pc = "failed" => exitCode = 1)

\* the second run fails, novelty exhausted, and the file still holds the two
\* articles it held when the run started
C26_Witness ==
    /\ pc = "failed"
    /\ error.kind = "novelty"
    /\ exitCode = 1
    /\ runs = 2
    /\ file.kind = "list"
    /\ file.list = articles
    /\ Len(file.list) = 2

\* how many entries of list equal a
CountOf(a, list) == Cardinality({i \in DOMAIN list : list[i] = a})

\* C27: a successful run loses no history: the file it writes holds a list
\* with exactly one more entry than the file held before (none when the file
\* was missing or could not be parsed), and every article the file held is
\* still in it, as many times as before.
C27_HistoryKept ==
    [][pc = "images" /\ pc' = "done" =>
        LET before == IF file.kind = "list" THEN file.list ELSE <<>>
        IN /\ file'.kind = "list"
           /\ Len(file'.list) = Len(before) + 1
           /\ \A i \in DOMAIN before :
                 CountOf(before[i], file'.list) >= CountOf(before[i], before)]_vars

\* the first run on the history edited by hand has written four articles,
\* the three it read among them
C27_Witness ==
    /\ pc = "done"
    /\ runs = 1
    /\ Len(file.list) = Len(EditedFile.list) + 1
    /\ \A i \in DOMAIN EditedFile.list :
            CountOf(EditedFile.list[i], file.list) = 1

\* ------------------------------------------------------------------------
\* The similarity functions on their own: tokenize, jaccard, bodySimilarity
\* and isTooSimilar applied to texts drawn from bounded sets
\* ------------------------------------------------------------------------

\* the longest text of characters handed to tokenize
MaxTextLen == 4

\* the most words in a text handed to the similarity functions
MaxWords == 3

\* a letter, a capital, a hyphen, two kinds of whitespace and an apostrophe
TextChars == {"a", "B", "-", " ", "\t", "'"}

CharTexts == UNION {[1..n -> TextChars] : n \in 0..MaxTextLen}

\* "a", "b-1", "C"
Words == {<<"a">>, <<"b","-","1">>, <<"C">>}

WordTexts ==
    {join(ws, <<" ">>) : ws \in UNION {[1..n -> Words] : n \in 0..MaxWords}}

\* "Understanding Deductibles"
TitleUD == <<"U","n","d","e","r","s","t","a","n","d","i","n","g"," ","D",
             "e","d","u","c","t","i","b","l","e","s">>

\* "Understanding Deductibles Today"
TitleUDT == <<"U","n","d","e","r","s","t","a","n","d","i","n","g"," ","D",
              "e","d","u","c","t","i","b","l","e","s"," ","T","o","d","a",
              "y">>

\* "Flood Coverage Basics"
TitleFCB == <<"F","l","o","o","d"," ","C","o","v","e","r","a","g","e"," ",
              "B","a","s","i","c","s">>

\* "a b c"
TitleABC == <<"a"," ","b"," ","c">>

\* "A, b: d e": 2 of 5 tokens shared with TitleABC
TitleABDE == <<"A",","," ","b",":"," ","d"," ","e">>

\* "<a b c d e f>x y": 2 tokens once the tag is stripped
BodyTagged == <<"<","a"," ","b"," ","c"," ","d"," ","e"," ","f",">","x"," ","y">>

\* "?!": punctuation only
TitlePunct == <<"?", "!">>

\* "éé": no ASCII character
TitleAccent == <<"é", "é">>

SampleTexts ==
    {TitleUD, TitleUDT, TitleFCB, TitleABC, TitleABDE, TitlePunct, TitleAccent,
     BodyA, BodyB, BodyC, BodyShort, BodyTagged}

PairTexts == WordTexts \cup SampleTexts

\* the bodies isTooSimilar is given beside the two titles: a pair that
\* clashes (score 2/4) and a pair that does not
BodyPairs == {<<BodyA, BodyB>>, <<BodyA, BodyC>>}

InsuranceIdle ==
    /\ file = [kind |-> "missing", list |-> <<>>]
    /\ now = T0
    /\ runs = 0
    /\ pc = "idle"
    /\ exitCode = 0
    /\ error = NoError
    /\ articles = <<>>
    /\ recent = <<>>
    /\ g = GuardOff
    /\ last = NoCall
    /\ recent2 = <<>>
    /\ g2 = GuardOff

\* what the text functions leave alone
notText == <<insuranceVars, plantVars, imageVars>>

TextInit ==
    /\ \/ inA \in CharTexts /\ inB = <<>>
       \/ inA \in PairTexts /\ inB \in PairTexts
    /\ fn = "none"
    /\ out = NoOut
    /\ InsuranceIdle
    /\ PlantsIdle
    /\ ImagesIdle

\* tokenize(inA)
Tokenize ==
    /\ fn = "none"
    /\ fn' = "tokenize"
    /\ out' = [NoOut EXCEPT !.tokens = tokenize(inA)]
    /\ UNCHANGED <<inA, inB, notText>>

\* jaccard(tokenize(inA), tokenize(inB)), and the call with the arguments
\* swapped
Jaccard ==
    /\ fn = "none"
    /\ fn' = "jaccard"
    /\ out' = [NoOut EXCEPT !.score = jaccard(tokenize(inA), tokenize(inB)),
                            !.swapped = jaccard(tokenize(inB), tokenize(inA))]
    /\ UNCHANGED <<inA, inB, notText>>

\* bodySimilarity(inA, inB)
BodySimilarity ==
    /\ fn = "none"
    /\ fn' = "bodySimilarity"
    /\ out' = [NoOut EXCEPT !.score = bodySimilarity(inA, inB)]
    /\ UNCHANGED <<inA, inB, notText>>

\* isTooSimilar of a draft titled inA against a pool of one record titled inB
IsTooSimilar(bodies) ==
    /\ fn = "none"
    /\ fn' = "isTooSimilar"
    /\ out' = [NoOut EXCEPT !.clash =
                    isTooSimilar([title |-> inA, body_html |-> bodies[1]],
                                 <<[title |-> inB, body |-> bodies[2]]>>)]
    /\ UNCHANGED <<inA, inB, notText>>

\* the draft screened against a pool of three: its title is inA
ScreenDraft == [title |-> inA, body_html |-> BodyB]

\* a pool of three records: the first is titled inB and shares no shingle
\* with the draft; the second shares half its shingles with it; the third
\* has the draft's own title
ScreenPool ==
    <<[title |-> inB, body |-> BodyC],
      [title |-> TitleABDE, body |-> BodyA],
      [title |-> inA, body |-> BodyShort]>>

\* isTooSimilar of the draft against the pool of three
Screen ==
    /\ fn = "none"
    /\ fn' = "screen"
    /\ out' = [NoOut EXCEPT !.clash = isTooSimilar(ScreenDraft, ScreenPool)]
    /\ UNCHANGED <<inA, inB, notText>>

TextNext ==
    \/ Tokenize
    \/ Jaccard
    \/ BodySimilarity
    \/ \E bodies \in BodyPairs : IsTooSimilar(bodies)
    \/ Screen

SpecText == TextInit /\ [][TextNext]_vars

\* the token set of a title
TokenSet(text) == RangeOf(tokenize(text))

\* C11: a draft is flagged as a title clash against a pool record exactly
\* when the Jaccard index of the two titles' token sets (0 when both are
\* empty) is at least 0.4, equality included: 5 * |A \cap B| >= 2 * |A \cup B|
\* with a non-empty union.  The clash carries the index.  "Understanding
\* Deductibles" against "Understanding Deductibles Today" scores 2/3 and is
\* flagged; titles with no token in common are not.
C11_TitleClashAtThreshold ==
    fn = "isTooSimilar" =>
        LET inter == Cardinality(TokenSet(inA) \cap TokenSet(inB))
            uni == Cardinality(TokenSet(inA) \cup TokenSet(inB))
        IN /\ out.clash.clash = "title" <=> (uni > 0 /\ 5 * inter >= 2 * uni)
           /\ out.clash.clash = "title" =>
                 out.clash.score = <<inter, uni>> /\ out.clash.against = inB
           /\ inA = TitleUDT /\ inB = TitleUD =>
                 out.clash.clash = "title" /\ out.clash.score = <<2, 3>>
           /\ inter = 0 => out.clash.clash # "title"

\* "a b c" against "A, b: d e": the index is exactly 2/5 and the draft is
\* flagged
C11_Witness ==
    /\ fn = "isTooSimilar"
    /\ inA = TitleABC
    /\ inB = TitleABDE
    /\ out.clash.clash = "title"
    /\ out.clash.score = <<2, 5>>

\* the number of tokens of a body once its markup is stripped
WordCount(html) == Len(tokenize(StripTags(html)))

\* C12: bodySimilarity returns 0 whenever one of the bodies has fewer than
\* SHINGLE_N = 5 tokens after its markup is stripped, whatever the other
\* body is, identical bodies included.
C12_ShortBodyScoresZero ==
    /\ SHINGLE_N = 5
    /\ fn = "bodySimilarity" /\ (WordCount(inA) < 5 \/ WordCount(inB) < 5) =>
          out.score = <<0, 1>>

\* the same body of two tokens on both sides
C12_Witness ==
    /\ fn = "bodySimilarity"
    /\ inA = inB
    /\ WordCount(inA) = 2
    /\ out.score = <<0, 1>>

\* C13: jaccard of a non-empty token sequence with itself is 1, and jaccard
\* of two empty sequences is 0: the union size is floored at 1, so the
\* division is never by zero.
C13_JaccardOfItself ==
    fn = "jaccard" /\ tokenize(inA) = tokenize(inB) =>
        /\ out.score[2] >= 1
        /\ IF tokenize(inA) = <<>>
           THEN out.score = <<0, 1>>
           ELSE out.score[1] = out.score[2]

\* two texts without a token
C13_Witness ==
    /\ fn = "jaccard"
    /\ inA # <<>>
    /\ tokenize(inA) = <<>>
    /\ inB = <<>>
    /\ out.score = <<0, 1>>

\* C14: jaccard is symmetric, also for sequences that repeat a token:
\* jaccard(A, B) = jaccard(B, A).
C14_JaccardSymmetric ==
    fn = "jaccard" => out.score = out.swapped

\* one side repeats a token, the other holds a token more, and they overlap
C14_Witness ==
    /\ fn = "jaccard"
    /\ Len(tokenize(inA)) > Cardinality(TokenSet(inA))
    /\ TokenSet(inA) \subseteq TokenSet(inB)
    /\ TokenSet(inA) # TokenSet(inB)
    /\ out.score[1] > 0
    /\ out.swapped = out.score

\* the title and the body similarity of the screened draft with a record
TitleSim(r) == jaccard(tokenize(ScreenDraft.title), tokenize(r.title))

BodySim(r) == bodySimilarity(ScreenDraft.body_html, r.body)

\* the record reaches one of the two thresholds
Reaches(r) ==
    \/ FracGE(TitleSim(r), TITLE_SIM_THRESHOLD)
    \/ FracGE(BodySim(r), BODY_SIM_THRESHOLD)

\* C22: screening scans the pool in order and stops at the first record that
\* reaches either threshold: the clash reported is that of the first such
\* record, of kind title with the title similarity if its title reaches the
\* threshold (whatever its body), otherwise of kind body with the body
\* similarity, even when a later record scores higher.
C22_FirstClashReported ==
    fn = "screen" =>
        \E i \in DOMAIN ScreenPool :
            LET r == ScreenPool[i]
            IN /\ Reaches(r)
               /\ \A j \in 1..(i - 1) : ~Reaches(ScreenPool[j])
               /\ out.clash.against = r.title
               /\ IF FracGE(TitleSim(r), TITLE_SIM_THRESHOLD)
                  THEN out.clash.clash = "title" /\ out.clash.score = TitleSim(r)
                  ELSE out.clash.clash = "body" /\ out.clash.score = BodySim(r)

\* "a b c" against the pool: the first record does not clash, the second
\* reaches both thresholds and is reported by its title (score 2/5, its body
\* scores 2/4), and the third, not reported, scores 1
C22_Witness ==
    /\ fn = "screen"
    /\ inA = TitleABC
    /\ ~Reaches(ScreenPool[1])
    /\ out.clash = [clash |-> "title", against |-> TitleABDE, score |-> <<2, 5>>]
    /\ BodySim(ScreenPool[2]) = <<2, 4>>
    /\ TitleSim(ScreenPool[3]) = <<3, 3>>

\* the text holds a character of [a-z0-9-] once lower-cased
HasToken(text) ==
    \E i \in DOMAIN text :
        LowerChar(text[i]) \in LowerChars \cup DigitChars \cup {"-"}

\* C24, as claimed: a draft whose title is character for character the title
\* of a pool record is flagged as a title clash, whatever the title.
C24_IdenticalTitleClashes ==
    fn = "isTooSimilar" /\ inA = inB => out.clash.clash = "title"

\* C24, amended: a draft whose title is character for character the title of
\* a pool record is flagged as a title clash, with score 1, exactly when the
\* title holds a character of [a-z0-9-] once lower-cased; a title without
\* one (empty, punctuation only, no ASCII letter or digit) has no token,
\* scores 0 against itself and is not flagged by its title.
C24_IdenticalTitleWithTokenClashes ==
    fn = "isTooSimilar" /\ inA = inB =>
        /\ out.clash.clash = "title" <=> HasToken(inA)
        /\ HasToken(inA) =>
              /\ out.clash.against = inB
              /\ out.clash.score[1] = out.clash.score[2]
        /\ inA \in {<<>>, TitlePunct, TitleAccent} => out.clash.clash # "title"

\* "A, b: d e" against itself: flagged with score 4/4
C24_Witness ==
    /\ fn = "isTooSimilar"
    /\ inA = TitleABDE
    /\ inB = inA
    /\ out.clash = [clash |-> "title", against |-> TitleABDE, score |-> <<4, 4>>]

\* the characters a token is made of: [a-z0-9-]
WordChars == LowerChars \cup DigitChars \cup {"-"}

\* the other reading: the characters outside the class are deleted
TokenizeByDeleting(text) ==
    LET kept == SelectSeq(toLowerCase(text), LAMBDA c : c \in TokenChars)
        clean == trim(CollapseSpaces(kept))
    IN IF clean = <<>> THEN <<>> ELSE split(clean, " ")

\* the maximal runs of token characters in s: every other character ends a
\* token
RECURSIVE WordRuns(_, _)
WordRuns(s, cur) ==
    LET done == IF cur = <<>> THEN <<>> ELSE <<cur>>
    IN IF s = <<>> THEN done
       ELSE IF Head(s) \in WordChars
            THEN WordRuns(Tail(s), Append(cur, Head(s)))
            ELSE done \o WordRuns(Tail(s), <<>>)

\* C15, as claimed: tokenize equals the reference that lower-cases the text,
\* deletes every character outside [a-z0-9\s-], collapses whitespace, trims
\* and splits on the space; the empty text gives no token and no token is
\* empty.
C15_TokenizeDeletes ==
    fn = "tokenize" =>
        /\ out.tokens = TokenizeByDeleting(inA)
        /\ inA = <<>> => out.tokens = <<>>
        /\ \A i \in DOMAIN out.tokens : out.tokens[i] # <<>>

\* C15, amended: a character outside [a-z0-9\s-] is replaced by a space, so
\* it ends a token as whitespace does: the tokens are the maximal runs of
\* [a-z0-9-] of the lower-cased text, in order; the empty text gives no token
\* and no token is empty.
C15_TokenizeSeparates ==
    fn = "tokenize" =>
        /\ out.tokens = WordRuns(toLowerCase(inA), <<>>)
        /\ inA = <<>> => out.tokens = <<>>
        /\ \A i \in DOMAIN out.tokens : out.tokens[i] # <<>>

\* "a'B": two tokens, where deleting the apostrophe would give one
C15_Witness ==
    /\ fn = "tokenize"
    /\ inA = <<"a", "'", "B">>
    /\ out.tokens = <<<<"a">>, <<"b">>>>

\* ------------------------------------------------------------------------
\* The plant generators: generate-plants.js ("json") and the Markdown
\* generator ("md").  A record written carries the plant's name (its title
\* is `${common_name}: Uses, History, and Preparations`) and, as the model's
\* bookkeeping, the key of the plant it is about; id, date, image and body
\* are left out.  A missing or unparseable used_plants.json reads as [].
\* ------------------------------------------------------------------------

\* runs of the plant scripts in one behaviour
MaxPlantRuns == 3

\* requests to the model in one run that the model follows
MaxRequests == 5

\* the Markdown generator's `attempts < 3`
MD_MAX_ATTEMPTS == 3

\* `${article.common_name} | ${article.scientific_name || ""}`.trim()
fallbackKey(article) ==
    trim(article.common_name \o <<" ", "|", " ">> \o article.scientific_name)

\* article.plant_key || `...`.trim()
plantKey(article) == Or(article.plant_key, fallbackKey(article))

\* what the model may answer: "Ba" (Oc) with and without its key "Ba | Oc",
\* "Mi" without a key, and the key "Mi" without a name
PlantAnswers ==
    LET Ba == <<"B", "a">>
        Oc == <<"O", "c">>
        Mi == <<"M", "i">>
    IN {[plant_key |-> Ba \o <<" ", "|", " ">> \o Oc, common_name |-> Ba,
         scientific_name |-> Oc],
        [plant_key |-> <<>>, common_name |-> Ba, scientific_name |-> Oc],
        [plant_key |-> <<>>, common_name |-> Mi, scientific_name |-> <<>>],
        [plant_key |-> Mi, common_name |-> <<>>, scientific_name |-> <<>>]}

\* what the plant scripts leave alone
notPlants == <<insuranceVars, textVars, imageVars>>

PlantsInit == PlantsIdle /\ InsuranceIdle /\ TextIdle /\ ImagesIdle

\* the process has ended, its locals with it
Ended(how) == [PlantOff EXCEPT !.script = prun.script, !.pc = how, !.n = prun.n]

\* a plant script is started: without its API keys it exits at once,
\* otherwise used_plants.json is read and the model asked
PlantStart(script, keysPresent) ==
    /\ prun.pc \in {"idle", "done", "failed"}
    /\ prun.n < MaxPlantRuns
    /\ prun' = IF keysPresent
               THEN [script |-> script, pc |-> "awaitModel", used |-> used,
                     requests |-> 1, article |-> NoArticle, n |-> prun.n + 1]
               ELSE [PlantOff EXCEPT !.script = script, !.pc = "failed",
                                     !.n = prun.n + 1]
    /\ UNCHANGED <<used, plantArticles, posts, notPlants>>

\* the request fails: fetch rejects, the status is not ok, or the content
\* is no JSON
ModelFails ==
    /\ prun.pc = "awaitModel"
    /\ prun' = Ended("failed")
    /\ UNCHANGED <<used, plantArticles, posts, notPlants>>

\* chooseAndWriteArticle from the model's answer on: `attempts` is a local
\* set to 1 before the test, and the retry is a call of
\* chooseAndWriteArticle itself, which reads used_plants.json and asks the
\* model again
MarkdownAnswer(article) ==
    /\ prun.script = "md"
    /\ prun.pc = "awaitModel"
    /\ LET attempts == 1
           excluded == article.plant_key # <<>> /\
                       article.plant_key \in RangeOf(prun.used)
           key == plantKey(article)
       IN IF excluded /\ attempts < MD_MAX_ATTEMPTS
          THEN /\ prun.requests < MaxRequests
               /\ prun' = [prun EXCEPT !.used = used, !.requests = @ + 1]
               /\ UNCHANGED <<used, posts>>
          ELSE IF article.common_name = <<>>
               THEN /\ prun' = Ended("failed")
                    /\ UNCHANGED <<used, posts>>
               ELSE /\ posts' = Append(posts, [name |-> article.common_name,
                                               key |-> key])
                    /\ used' = IF key # <<>> /\ key \notin RangeOf(prun.used)
                               THEN Append(prun.used, key)
                               ELSE used
                    /\ prun' = Ended("done")
    /\ UNCHANGED <<plantArticles, notPlants>>

\* generate-plants.js main from the model's answer to the call of DeepAI
JsonAnswer(article) ==
    /\ prun.script = "json"
    /\ prun.pc = "awaitModel"
    /\ prun' = IF plantKey(article) \in RangeOf(prun.used)
               THEN Ended("failed")
               ELSE [prun EXCEPT !.pc = "awaitImage", !.article = article]
    /\ UNCHANGED <<used, plantArticles, posts, notPlants>>

\* generate-plants.js main once deepAIImageForPlant has settled (its failure
\* is caught and only empties the record's image): the record is put first
\* in articles.json, then the key is pushed on used_plants.json.  fail names
\* the step that throws: "articles" (articles.json is no array, or its write
\* fails), "used" (the write of used_plants.json fails), or "none".
JsonImageSettles(fail) ==
    /\ prun.script = "json"
    /\ prun.pc = "awaitImage"
    /\ LET key == plantKey(prun.article)
           record == [name |-> prun.article.common_name, key |-> key]
       IN /\ plantArticles' = IF fail = "articles" THEN plantArticles
                              ELSE <<record>> \o plantArticles
          /\ used' = IF fail = "none" THEN Append(prun.used, key) ELSE used
    /\ prun' = Ended(IF fail = "none" THEN "done" ELSE "failed")
    /\ UNCHANGED <<posts, notPlants>>

PlantsNext ==
    \/ \E script \in {"json", "md"}, keysPresent \in BOOLEAN :
            PlantStart(script, keysPresent)
    \/ ModelFails
    \/ \E article \in PlantAnswers : MarkdownAnswer(article)
    \/ \E article \in PlantAnswers : JsonAnswer(article)
    \/ \E fail \in {"none", "articles", "used"} : JsonImageSettles(fail)

SpecPlants == PlantsInit /\ [][PlantsNext]_vars

\* C16: the plant generators never repeat a plant: no step writes a post or
\* an articles.json entry for a plant whose key is in used_plants.json (the
\* file is as the run found it: nothing else writes it during the run), and
\* used_plants.json never holds a key twice.
C16_NoPlantRepeated ==
    /\ [][/\ posts' # posts =>
                posts'[Len(posts')].key \notin RangeOf(used)
          /\ plantArticles' # plantArticles =>
                plantArticles'[1].key \notin RangeOf(used)]_vars
    /\ [](\A i, j \in DOMAIN used : used[i] = used[j] => i = j)

\* C17: a run of the Markdown generator asks the model at most 3 times.
C17_AtMostThreeRequests ==
    prun.script = "md" => prun.requests <= MD_MAX_ATTEMPTS

\* C28: in generate-plants.js the plants' articles.json and used_plants.json
\* stay consistent whatever step a run fails at: a run adds one article and
\* its plant's key, or neither, and in no state does articles.json hold an
\* article whose plant's key is not in used_plants.json.
C28_ArticlesAndUsedConsistent ==
    /\ [][prun.script = "json" =>
            /\ plantArticles' # plantArticles <=> used' # used
            /\ plantArticles' # plantArticles =>
                  /\ Len(plantArticles') = Len(plantArticles) + 1
                  /\ used' = Append(used, plantArticles'[1].key)]_vars
    /\ [](\A i \in DOMAIN plantArticles : plantArticles[i].key \in RangeOf(used))

\* ------------------------------------------------------------------------
\* fetchPixabayIllustrations (generate-insurance.js): the searches, then one
\* download per slot.  The hits are taken as ranked; an image entry is
\* "pixabay" (downloaded and self-hosted) or "picsum" (the placeholder).
\* ------------------------------------------------------------------------

\* the largest count asked for
MaxCount == 3

\* the most hits a search returns
MaxHits == 4

\* buildPixabayFallbackQueries: uniq.slice(0, 6), of at least 6 candidates
FALLBACK_QUERIES == 6

\* downloadToFile's { retries = 2 }
DOWNLOAD_RETRIES == 2

\* downloadToFile's 400 * (attempt + 1) ms
BACKOFF_MS == 400

\* what pixabaySearch may return: data.hits, or [] when the status is not ok
\* or the answer holds no hits
HitLists == UNION {[1..n -> {"src", "nosrc"}] : n \in 0..MaxHits}

\* Array.from({ length: count }, ...) of picsum entries
Placeholders(count) == [k \in 1..count |-> "picsum"]

\* the loop of lines 339-370 from slot m.i on, up to the next await of
\* downloadToFile or the return: a slot without a hit, or whose hit has no
\* url, throws inside the try and gets the placeholder
RECURSIVE FillSlots(_)
FillSlots(m) ==
    IF m.i >= m.count THEN [m EXCEPT !.pc = "returned"]
    ELSE IF m.i + 1 <= Len(m.ranked) /\ m.ranked[m.i + 1] = "src"
         THEN [m EXCEPT !.pc = "download", !.attempt = 0, !.delay = 0]
         ELSE FillSlots([m EXCEPT !.out = Append(@, "picsum"), !.i = @ + 1])

\* what fetchPixabayIllustrations leaves alone
notImages == <<insuranceVars, textVars, plantVars>>

ImagesInit == ImagesIdle /\ InsuranceIdle /\ TextIdle /\ PlantsIdle

\* fetchPixabayIllustrations({ ..., count }): without PIXABAY_API_KEY the
\* placeholders are returned, otherwise the main query is sent
FetchStart(keyPresent, count) ==
    /\ im.pc = "idle"
    /\ im' = IF keyPresent
             THEN [ImOff EXCEPT !.pc = "search", !.count = count,
                                !.queriesLeft = FALLBACK_QUERIES]
             ELSE [ImOff EXCEPT !.pc = "returned", !.count = count,
                                !.out = Placeholders(count)]
    /\ UNCHANGED <<imgDir, notImages>>

\* pixabaySearch returns hits: no hit sends the next fallback query, or
\* returns the placeholders after the last one; hits are ranked, cut to
\* count, and the loop over the slots starts
SearchResolves(hits) ==
    /\ im.pc = "search"
    /\ im' = IF hits = <<>>
             THEN IF im.queriesLeft > 0
                  THEN [im EXCEPT !.queriesLeft = @ - 1]
                  ELSE [im EXCEPT !.pc = "returned",
                                  !.out = Placeholders(im.count)]
             ELSE FillSlots([im EXCEPT !.ranked = Take(hits, im.count), !.i = 0])
    /\ UNCHANGED <<imgDir, notImages>>

\* pixabaySearch throws: fetch rejects (no network), or res.json() rejects;
\* nothing in fetchPixabayIllustrations catches it
SearchRejects ==
    /\ im.pc = "search"
    /\ im' = [im EXCEPT !.pc = "threw"]
    /\ UNCHANGED <<imgDir, notImages>>

\* downloadToFile: the fetch is ok and the file written; the entry is pushed
\* and the loop goes on
DownloadSucceeds ==
    /\ im.pc = "download"
    /\ imgDir' = imgDir \cup {im.i + 1}
    /\ im' = FillSlots([im EXCEPT !.out = Append(@, "pixabay"), !.i = @ + 1])
    /\ UNCHANGED notImages

\* a slip: the same wait after every failed attempt, and one attempt more
DownloadFailsFlatWait ==
    /\ im.pc = "download"
    /\ im' = IF im.attempt > DOWNLOAD_RETRIES
             THEN FillSlots([im EXCEPT !.out = Append(@, "picsum"), !.i = @ + 1])
             ELSE [im EXCEPT !.pc = "backoff", !.delay = BACKOFF_MS]
    /\ UNCHANGED <<imgDir, notImages>>

\* downloadToFile: the attempt fails (fetch rejects, status not ok, or the
\* write fails): it waits before the next attempt, or rethrows after the
\* last one, which the loop catches and answers with the placeholder
DownloadFails ==
    /\ im.pc = "download"
    /\ im' = IF im.attempt = DOWNLOAD_RETRIES
             THEN FillSlots([im EXCEPT !.out = Append(@, "picsum"), !.i = @ + 1])
             ELSE [im EXCEPT !.pc = "backoff",
                             !.delay = BACKOFF_MS * (im.attempt + 1)]
    /\ UNCHANGED <<imgDir, notImages>>

\* the timer of downloadToFile fires: the next attempt
BackoffEnds ==
    /\ im.pc = "backoff"
    /\ im' = [im EXCEPT !.pc = "download", !.attempt = @ + 1]
    /\ UNCHANGED <<imgDir, notImages>>

ImagesNext ==
    \/ \E keyPresent \in BOOLEAN, count \in 1..MaxCount :
            FetchStart(keyPresent, count)
    \/ \E hits \in HitLists : SearchResolves(hits)
    \/ SearchRejects
    \/ DownloadSucceeds
    \/ DownloadFails
    \/ BackoffEnds

SpecImages == ImagesInit /\ [][ImagesNext]_vars

\* C20: image selection never fails the run: whatever the searches and the
\* downloads do, fetchPixabayIllustrations never throws, and it returns
\* exactly count entries: the downloaded image for each slot filled, the
\* picsum placeholder for each other slot.
C20_ImagesNeverFail ==
    /\ im.pc # "threw"
    /\ im.pc = "returned" =>
          /\ Len(im.out) = im.count
          /\ \A k \in DOMAIN im.out :
                IF k \in imgDir THEN im.out[k] = "pixabay"
                ELSE im.out[k] = "picsum"

\* C29: downloadToFile, called with its default of DOWNLOAD_RETRIES retries,
\* makes at most DOWNLOAD_RETRIES + 1 attempts, one after the other (attempt
\* counts the failed ones).  An attempt that fails before the last is
\* followed by a wait of BACKOFF_MS * (attempt + 1) ms, and the next attempt
\* starts only when the wait is over; the failure of the last attempt is
\* rethrown at once (the caller answers it with the placeholder); the file
\* is written only by an attempt that succeeds, which ends the call: the
\* caller pushes the downloaded entry and no further attempt is made for
\* that file.
C29_DownloadRetries ==
    /\ [](im.pc \in {"download", "backoff"} => im.attempt <= DOWNLOAD_RETRIES)
    /\ [](im.pc = "backoff" =>
            /\ im.attempt < DOWNLOAD_RETRIES
            /\ im.delay = BACKOFF_MS * (im.attempt + 1))
    /\ [][im.pc = "download" /\ im'.pc = "download" /\ im'.i = im.i => FALSE]_vars
    /\ [][im.pc = "backoff" =>
            /\ im'.pc = "download"
            /\ im'.i = im.i
            /\ im'.attempt = im.attempt + 1
            /\ imgDir' = imgDir]_vars
    /\ [][im.pc = "download" /\ imgDir' = imgDir =>
            IF im.attempt < DOWNLOAD_RETRIES
            THEN im'.pc = "backoff" /\ im'.i = im.i /\ im'.out = im.out
            ELSE /\ im'.pc # "backoff"
                 /\ im'.i > im.i
                 /\ im'.out[im.i + 1] = "picsum"]_vars
    /\ [][imgDir' # imgDir =>
            /\ im.pc = "download"
            /\ imgDir' = imgDir \cup {im.i + 1}
            /\ im'.i > im.i
            /\ im'.out[im.i + 1] = "pixabay"
            /\ im'.pc = "download" => im'.attempt = 0]_vars

\* the third attempt for the second image is in flight, after waits of 400
\* and 800 ms; the first image was downloaded
C29_Witness ==
    /\ im.pc = "download"
    /\ im.attempt = DOWNLOAD_RETRIES
    /\ im.delay = BACKOFF_MS * DOWNLOAD_RETRIES
    /\ im.delay = 800
    /\ im.i = 1
    /\ im.out = <<"pixabay">>
    /\ imgDir = {1}
====
